---- MODULE Spec2Model ----
(***************************************************************************)
(* The rune mint pipeline of src/subcommand/wallet/mint.rs: the entry      *)
(* points Mint::run and RunesMint::run_in_place (called by mint_handler of *)
(* src/bin/runes.rs), as processes stepping through the collaborator calls *)
(* and checks of the source, in the source's order.  The wallet, the node  *)
(* RPC client, the rune index and the runestone codec live outside these   *)
(* two files: they are collaborators whose answers are drawn from small    *)
(* sets.                                                                   *)
(***************************************************************************)
EXTENDS Integers, Sequences, FiniteSets, TLC

VARIABLES
  pc,             \* [Requests -> position of the request in run()]
  request,        \* [Requests -> the Mint / RunesMint struct]
  locals,         \* [Requests -> the let-bindings of run()]
  trace,          \* [Requests -> the collaborator calls made, with outcome]
  result,         \* [Requests -> what run() returned]
  height,         \* chain tip, bitcoin_client.get_block_count()
  mints,          \* the rune entry's mint count in the index
  has_rune_index, \* wallet.has_rune_index()
  locked,         \* outputs locked in the node wallet (lockunspent)
  sent            \* transactions accepted by send_raw_transaction

vars == <<pc, request, locals, trace, result, height, mints, has_rune_index,
          locked, sent>>

-----------------------------------------------------------------------------
(* Bounds and inputs *)

\* Chain heights run over 0..MaxHeight.
MaxHeight == 3

\* Two request slots: two concurrent POST /mint calls, or two CLI invocations.
Requests == {"r1", "r2"}

\* clap help of --postage: "[default: 10000sat]".
TARGET_POSTAGE == 10000

\* The OP_RETURN ceiling of the size check.
MAX_OP_RETURN == 82

Some(x) == <<x>>
None == <<>>
IsSome(o) == Len(o) = 1
Unwrap(o) == o[1]

\* Option::unwrap_or
UnwrapOr(o, d) == IF IsSome(o) THEN o[1] ELSE d

\* The rune the index knows, and its entry.  The mint window is [start, end).
EtchedRune == "ABCD"
EtchedId == [block |-> 1, tx |-> 0]
EtchedTerms == [start |-> 1, end |-> 3, cap |-> 2, amount |-> 100]
EtchedDisplay == [divisibility |-> 2, symbol |-> "R"]

SpacedRunes ==
  { [rune |-> "ABCD", spacers |-> 0],
    [rune |-> "ABCD", spacers |-> 1],
    [rune |-> "ZZZZ", spacers |-> 0] }

\* The wallet's chain, and addresses a caller may give.
WalletNetwork == "mainnet"
Networks == {"mainnet", "testnet"}
ScriptTypes == {"p2wpkh", "p2tr", "p2pkh"}
ChangeAddress == [network |-> WalletNetwork, type |-> "p2tr", key |-> "change"]
GivenAddresses ==
  { [network |-> n, type |-> t, key |-> "user"] : n \in Networks, t \in ScriptTypes }

\* Postage a caller may give: around every script type's dust value.
GivenPostages == {293, 294, 295, 330, 331, 546, 547}

FeeRates == {5}

\* The wallet's unspent outputs: plain coins, and outputs carrying
\* inscriptions or runes.
Cardinals == {"c1", "c2"}
NonCardinals == {"n1", "n2"}
Outputs == Cardinals \cup NonCardinals

\* Script lengths runestone.encipher() may return: the two sides of the
\* size check's boundary.
ScriptLens == {82, 83}

-----------------------------------------------------------------------------
(* Collaborators outside src/ *)

\* RuneEntry::mintable(height): the amount one mint yields, or why not.
mintable(entry, h) ==
  IF h < entry.terms.start THEN [ok |-> FALSE, err |-> "NotStarted", amount |-> 0]
  ELSE IF h >= entry.terms.end THEN [ok |-> FALSE, err |-> "Ended", amount |-> 0]
  ELSE IF entry.mints >= entry.terms.cap
    THEN [ok |-> FALSE, err |-> "CapReached", amount |-> 0]
  ELSE [ok |-> TRUE, err |-> "", amount |-> entry.terms.amount]

\* wallet.get_rune(rune): Some((id, entry, _)) for an etched rune.
get_rune(rune, m) ==
  IF rune = EtchedRune
    THEN Some([id |-> EtchedId,
               entry |-> [terms |-> EtchedTerms, mints |-> m,
                          divisibility |-> EtchedDisplay.divisibility,
                          symbol |-> EtchedDisplay.symbol]])
    ELSE None

\* Address::script_pubkey(): the script keeps the type and the key, not the
\* network.
script_pubkey(addr) == [type |-> addr.type, key |-> addr.key]

\* ScriptBuf::dust_value() of rust-bitcoin, by script type.
dust_value(script) ==
  CASE script.type = "p2wpkh" -> 294
    [] script.type = "p2tr" -> 330
    [] script.type = "p2pkh" -> 546

\* The Runestone a mint builds: Runestone { mint: Some(id), ..default() }.
MintRunestone(id) ==
  [edicts |-> <<>>, etching |-> None, mint |-> Some(id), pointer |-> None]

\* The message of a runestone as tag/value integers: a mint is two
\* (Tag::Mint = 20) pairs, a pointer one (Tag::Pointer = 22) pair.
Message(runestone) ==
  (IF IsSome(runestone.mint)
     THEN <<20, Unwrap(runestone.mint).block, 20, Unwrap(runestone.mint).tx>>
     ELSE <<>>)
  \o (IF IsSome(runestone.pointer) THEN <<22, Unwrap(runestone.pointer)>> ELSE <<>>)

\* Runestone::encipher(): OP_RETURN, the magic number OP_13, then the
\* message.  n is the byte length of the produced script.
encipher(runestone, n) ==
  [type |-> "op_return", magic |-> 13, payload |-> Message(runestone), len |-> n]

\* The values a message gives for one tag, in order.
RECURSIVE TagValues(_, _)
TagValues(p, tag) ==
  IF Len(p) < 2 THEN <<>>
  ELSE IF p[1] = tag THEN <<p[2]>> \o TagValues(SubSeq(p, 3, Len(p)), tag)
  ELSE TagValues(SubSeq(p, 3, Len(p)), tag)

\* A message is flawed when a tag has no value or an even tag is unknown.
RECURSIVE Flawed(_)
Flawed(p) ==
  IF Len(p) = 0 THEN FALSE
  ELSE IF Len(p) = 1 THEN TRUE
  ELSE IF p[1] % 2 = 0 /\ p[1] \notin {20, 22} THEN TRUE
  ELSE Flawed(SubSeq(p, 3, Len(p)))

IsRunestoneScript(s) == s.type = "op_return" /\ s.magic = 13

\* Runestone::decipher(tx): the artifact of the first output whose script
\* is OP_RETURN OP_13 ..., or nothing.
decipher(tx) ==
  LET idx == {i \in 1..Len(tx.output) : IsRunestoneScript(tx.output[i].script)}
  IN IF idx = {} THEN None
     ELSE LET i == CHOOSE i \in idx : \A j \in idx : i <= j
              p == tx.output[i].script.payload
              m == TagValues(p, 20)
              q == TagValues(p, 22)
          IN IF Flawed(p) \/ Len(m) \notin {0, 2} \/ Len(q) > 1
               THEN Some([artifact |-> "Cenotaph",
                          runestone |-> [edicts |-> <<>>, etching |-> None,
                                         mint |-> None, pointer |-> None]])
               ELSE Some([artifact |-> "Runestone",
                          runestone |->
                            [edicts |-> <<>>, etching |-> None,
                             mint |-> IF Len(m) = 2
                                        THEN Some([block |-> m[1], tx |-> m[2]])
                                        ELSE None,
                             pointer |-> IF Len(q) = 1 THEN Some(q[1]) ELSE None]])

-----------------------------------------------------------------------------
(* Transactions *)

\* Faulty variant of Skeleton: the outputs in the other order.
SkeletonSwapped(instruction, destination_script, postage) ==
  [version |-> 2, lock_time |-> 0, input |-> {}, signed |-> FALSE,
   output |-> << [script |-> destination_script, value |-> postage],
                 [script |-> instruction, value |-> 0] >>]

\* Transaction { version: 2, lock_time: ZERO, input: Vec::new(), output: [the
\* runestone output with value 0, the destination output with the postage] }.
\* The inputs are kept as a set of outpoints.
Skeleton(instruction, destination_script, postage) ==
  [version |-> 2, lock_time |-> 0, input |-> {}, signed |-> FALSE,
   output |-> << [script |-> instruction, value |-> 0],
                 [script |-> destination_script, value |-> postage] >>]

\* Raw transaction bytes, as the node RPC takes and returns them.
serialize(tx) == [wellformed |-> TRUE, tx |-> tx]
deserialize(bytes) == IF bytes.wellformed THEN Some(bytes.tx) ELSE None

ChangeOutput == [script |-> script_pubkey(ChangeAddress), value |-> 1000]

\* What an honest fundrawtransaction does: inputs added, a change output
\* appended when needed, the given outputs kept.
Funded(tx, inputs, change) ==
  [tx EXCEPT !.input = inputs,
             !.output = IF change THEN Append(@, ChangeOutput) ELSE @]

\* What an honest signrawtransactionwithwallet does.
Signed(tx) == [tx EXCEPT !.signed = TRUE]

\* Ways a collaborator's answer may differ from the honest one: the
\* instruction output names another rune id, carries a further field, an
\* unknown even tag, is no runestone at all, or the bytes do not parse.
Tampers == {"none", "other_id", "extra_field", "cenotaph", "not_runestone", "garbage"}

TamperScript(s, t) ==
  CASE t = "other_id" -> [s EXCEPT !.payload = <<20, 2, 20, 0>>]
    [] t = "extra_field" -> [s EXCEPT !.payload = @ \o <<22, 0>>]
    [] t = "cenotaph" -> [s EXCEPT !.payload = @ \o <<24, 0>>]
    [] t = "not_runestone" -> [s EXCEPT !.magic = 0]
    [] OTHER -> s

Tamper(bytes, t) ==
  IF t = "garbage" THEN [bytes EXCEPT !.wellformed = FALSE]
  ELSE IF Len(bytes.tx.output) = 0 THEN bytes
  ELSE [bytes EXCEPT !.tx.output[1].script = TamperScript(@, t)]

\* bitcoin_client.send_raw_transaction returns the transaction's id.
txid(tx) == [txid_of |-> tx]

-----------------------------------------------------------------------------
(* The state of one request *)

EntryPoints == {"Mint", "RunesMint"}

NoTx == [version |-> 0, lock_time |-> 0, input |-> {}, signed |-> FALSE,
         output |-> <<>>]

InitLocals ==
  [block_height |-> None, rune |-> None, postage |-> None, amount |-> None,
   destination |-> None, runestone |-> None, script_pubkey |-> None,
   unfunded_transaction |-> None, unsigned_transaction |-> None,
   signed_transaction |-> None, deserialized |-> None, locked_here |-> {},
   funding_call |-> None]

NoResult == [tag |-> "none", error |-> "", rune |-> "", value |-> None]
Err(kind, rune) == [tag |-> "err", error |-> kind, rune |-> rune, value |-> None]
Panic(kind) == [tag |-> "panic", error |-> kind, rune |-> "", value |-> None]
Ok(v) == [tag |-> "ok", error |-> "", rune |-> "", value |-> Some(v)]

\* Mint::run is handed a wallet; RunesMint::run_in_place constructs one.
FirstStep(entry_point) ==
  IF entry_point = "RunesMint" THEN "construct" ELSE "has_rune_index"

Terminal == {"idle", "reported", "returned", "failed", "panicked"}

-----------------------------------------------------------------------------
(* The steps of run() *)

\* Faulty variants of Proceeds: the error of one step is dropped.
ProceedsDespiteIndex(op, ok) == ok \/ op = "has_rune_index"
ProceedsDespiteSign(op, ok) == ok \/ op = "sign_raw_transaction_with_wallet"
ProceedsDespiteMintable(op, ok) == ok \/ op = "mintable"
ProceedsDespiteLock(op, ok) == ok \/ op = "lock_non_cardinal_outputs"

\* `?`, ensure! and bail!: run() goes on only when the step succeeded.
Proceeds(op, ok) == ok

\* Faulty variant of Return: a step that failed is left to be tried again.
ReturnRetrying(r, op, ok, next, new_locals, value, err) ==
  /\ trace' = [trace EXCEPT ![r] = Append(@, [op |-> op, ok |-> ok])]
  /\ locals' = [locals EXCEPT ![r] = new_locals]
  /\ IF Proceeds(op, ok)
       THEN /\ pc' = [pc EXCEPT ![r] = next]
            /\ result' = [result EXCEPT ![r] = value]
       ELSE UNCHANGED <<pc, result>>

\* One step: the call is recorded, its bindings made, and run() either goes
\* on to `next` (returning `value` when `next` ends it) or returns `err`.
Return(r, op, ok, next, new_locals, value, err) ==
  /\ trace' = [trace EXCEPT ![r] = Append(@, [op |-> op, ok |-> ok])]
  /\ locals' = [locals EXCEPT ![r] = new_locals]
  /\ IF Proceeds(op, ok)
       THEN /\ pc' = [pc EXCEPT ![r] = next]
            /\ result' = [result EXCEPT ![r] = value]
       ELSE /\ pc' = [pc EXCEPT ![r] = "failed"]
            /\ result' = [result EXCEPT ![r] = err]

Advance(r, op, ok, next, new_locals, err) ==
  Return(r, op, ok, next, new_locals, NoResult, err)

\* WalletParams::constructor, by run_in_place only.
Construct(r) ==
  /\ pc[r] = "construct"
  /\ \E ok \in BOOLEAN :
       Advance(r, "construct", ok, "has_rune_index", locals[r],
               Err("WalletConstruction", ""))
  /\ UNCHANGED <<request, height, mints, has_rune_index, locked, sent>>

\* ensure!(wallet.has_rune_index(), ...)
HasRuneIndex(r) ==
  /\ pc[r] = "has_rune_index"
  /\ Advance(r, "has_rune_index", has_rune_index, "get_block_count", locals[r],
             Err("IndexNotEnabled", ""))
  /\ UNCHANGED <<request, height, mints, has_rune_index, locked, sent>>

\* let block_height = bitcoin_client.get_block_count()?;
GetBlockCount(r) ==
  /\ pc[r] = "get_block_count"
  /\ \E ok \in BOOLEAN :
       Advance(r, "get_block_count", ok, "get_rune",
               IF ok THEN [locals[r] EXCEPT !.block_height = Some(height)]
                     ELSE locals[r],
               Err("RpcError", ""))
  /\ UNCHANGED <<request, height, mints, has_rune_index, locked, sent>>

\* let Some((id, rune_entry, _)) = wallet.get_rune(rune)? else { bail!(...) };
GetRune(r) ==
  /\ pc[r] = "get_rune"
  /\ LET rune == request[r].rune.rune
         found == get_rune(rune, mints)
     IN \E answered \in BOOLEAN :
          Advance(r, "get_rune", answered /\ IsSome(found), "mintable",
                  IF answered THEN [locals[r] EXCEPT !.rune = found] ELSE locals[r],
                  IF answered THEN Err("TokenNotFound", rune)
                              ELSE Err("IndexQueryFailed", ""))
  /\ UNCHANGED <<request, height, mints, has_rune_index, locked, sent>>

\* let postage = self.postage.unwrap_or(TARGET_POSTAGE);
\* let amount = rune_entry.mintable(block_height).map_err(...)?;
Mintable(r) ==
  /\ pc[r] = "mintable"
  /\ LET m == mintable(Unwrap(locals[r].rune).entry, Unwrap(locals[r].block_height))
     IN Advance(r, "mintable", m.ok, "destination",
                [locals[r] EXCEPT
                   !.postage = Some(UnwrapOr(request[r].postage, TARGET_POSTAGE)),
                   !.amount = IF m.ok THEN Some(m.amount) ELSE None],
                Err(m.err, request[r].rune.rune))
  /\ UNCHANGED <<request, height, mints, has_rune_index, locked, sent>>

\* Address::require_network
require_network(addr, network) == addr.network = network

\* Faulty variant of Destination: a given destination is taken unchecked.
DestinationUnchecked(r) ==
  /\ pc[r] = "destination"
  /\ IF IsSome(request[r].destination)
       THEN Advance(r, "require_network", TRUE, "dust",
                    [locals[r] EXCEPT !.destination = request[r].destination],
                    Err("WrongNetwork", ""))
       ELSE \E ok \in BOOLEAN :
              Advance(r, "get_change_address", ok, "dust",
                      IF ok THEN [locals[r] EXCEPT !.destination = Some(ChangeAddress)]
                            ELSE locals[r],
                      Err("RpcError", ""))
  /\ UNCHANGED <<request, height, mints, has_rune_index, locked, sent>>

\* Faulty variant of Destination: the instruction is encoded and
\* size-checked right after the destination is bound.
DestinationThenEncipher(r) ==
  /\ pc[r] = "destination"
  /\ IF IsSome(request[r].destination)
       THEN LET d == Unwrap(request[r].destination)
                ok == require_network(d, WalletNetwork)
            IN Advance(r, "require_network", ok, "encipher",
                       IF ok THEN [locals[r] EXCEPT !.destination = Some(d)]
                             ELSE locals[r],
                       Err("WrongNetwork", ""))
       ELSE \E ok \in BOOLEAN :
              Advance(r, "get_change_address", ok, "encipher",
                      IF ok THEN [locals[r] EXCEPT !.destination = Some(ChangeAddress)]
                            ELSE locals[r],
                      Err("RpcError", ""))
  /\ UNCHANGED <<request, height, mints, has_rune_index, locked, sent>>

\* let destination = match self.destination {
\*   Some(destination) => destination.require_network(chain.network())?,
\*   None => wallet.get_change_address()?,
\* };
Destination(r) ==
  /\ pc[r] = "destination"
  /\ IF IsSome(request[r].destination)
       THEN LET d == Unwrap(request[r].destination)
                ok == require_network(d, WalletNetwork)
            IN Advance(r, "require_network", ok, "dust",
                       IF ok THEN [locals[r] EXCEPT !.destination = Some(d)]
                             ELSE locals[r],
                       Err("WrongNetwork", ""))
       ELSE \E ok \in BOOLEAN :
              Advance(r, "get_change_address", ok, "dust",
                      IF ok THEN [locals[r] EXCEPT !.destination = Some(ChangeAddress)]
                            ELSE locals[r],
                      Err("RpcError", ""))
  /\ UNCHANGED <<request, height, mints, has_rune_index, locked, sent>>

\* Faulty variant of DustOk: postage equal to the dust value passes.
DustOkInclusive(script, postage) == dust_value(script) <= postage

\* destination.script_pubkey().dust_value() < postage
DustOk(script, postage) == dust_value(script) < postage

\* Faulty variant of Dust: the lock is taken right after the dust check.
DustThenLock(r) ==
  /\ pc[r] = "dust"
  /\ Advance(r, "dust_value",
             DustOk(script_pubkey(Unwrap(locals[r].destination)),
                    Unwrap(locals[r].postage)),
             "lock", locals[r], Err("BelowDustLimit", ""))
  /\ UNCHANGED <<request, height, mints, has_rune_index, locked, sent>>

\* ensure!(destination.script_pubkey().dust_value() < postage, ...)
Dust(r) ==
  /\ pc[r] = "dust"
  /\ Advance(r, "dust_value",
             DustOk(script_pubkey(Unwrap(locals[r].destination)),
                    Unwrap(locals[r].postage)),
             "encipher", locals[r], Err("BelowDustLimit", ""))
  /\ UNCHANGED <<request, height, mints, has_rune_index, locked, sent>>

\* Faulty variant of SizeOk: a script of exactly 82 bytes is refused.
SizeOkStrict(script) == script.len < MAX_OP_RETURN

\* script_pubkey.len() <= 82
SizeOk(script) == script.len <= MAX_OP_RETURN

\* let runestone = Runestone { mint: Some(id), ..default() };
\* let script_pubkey = runestone.encipher();
\* ensure!(script_pubkey.len() <= 82, ...)
Encipher(r) ==
  /\ pc[r] = "encipher"
  /\ \E n \in ScriptLens :
       LET runestone == MintRunestone(Unwrap(locals[r].rune).id)
           script == encipher(runestone, n)
       IN Advance(r, "encipher", SizeOk(script), "build",
                  [locals[r] EXCEPT !.runestone = Some(runestone),
                                    !.script_pubkey = Some(script)],
                  Err("PayloadTooLarge", ""))
  /\ UNCHANGED <<request, height, mints, has_rune_index, locked, sent>>

\* let unfunded_transaction = Transaction { ... };
Build(r) ==
  /\ pc[r] = "build"
  /\ Advance(r, "build", TRUE, "lock",
             [locals[r] EXCEPT !.unfunded_transaction =
                Some(Skeleton(Unwrap(locals[r].script_pubkey),
                              script_pubkey(Unwrap(locals[r].destination)),
                              Unwrap(locals[r].postage)))],
             Err("Unreachable", ""))
  /\ UNCHANGED <<request, height, mints, has_rune_index, locked, sent>>

\* wallet.lock_non_cardinal_outputs()?: the wallet's outputs that carry
\* inscriptions or runes and are not yet locked get locked.  A failing call
\* may have locked any part of them.
Lock(r) ==
  /\ pc[r] = "lock"
  /\ \E ok \in BOOLEAN, S \in SUBSET (NonCardinals \ locked) :
       /\ ok => S = NonCardinals \ locked
       /\ locked' = locked \cup S
       /\ Advance(r, "lock_non_cardinal_outputs", ok, "fund",
                  [locals[r] EXCEPT !.locked_here = S], Err("LockFailed", ""))
  /\ UNCHANGED <<request, height, mints, has_rune_index, sent>>

\* Faulty variant of FundArgs: RunesMint::run funds at a fee rate of its own.
FundArgsByEntryPoint(req, loc) ==
  [fee_rate |-> IF req.entry_point = "Mint" THEN req.fee_rate ELSE req.fee_rate + 1,
   tx |-> Unwrap(loc.unfunded_transaction)]

\* What run() hands to fund_raw_transaction: self.fee_rate and
\* &unfunded_transaction.
FundArgs(req, loc) ==
  [fee_rate |-> req.fee_rate, tx |-> Unwrap(loc.unfunded_transaction)]

\* Faulty variant of AfterFund: both entry points go on to sign.
AfterFundAlwaysSign(entry_point) == "sign"

\* Mint::run goes on to sign; RunesMint::run returns Ok(unsigned_transaction).
AfterFund(entry_point) == IF entry_point = "Mint" THEN "sign" ELSE "returned"

\* Faulty variant of Fund: a failed funding call releases what the request locked.
FundReleasingOnError(r, tampers) ==
  /\ pc[r] = "fund"
  /\ \E ok \in BOOLEAN, inputs \in SUBSET (Outputs \ locked),
        change \in BOOLEAN, t \in tampers :
       /\ ok => inputs # {}
       /\ ~ok => inputs = {} /\ ~change /\ t = "none"
       /\ locked' = IF ok THEN locked ELSE locked \ locals[r].locked_here
       /\ LET args == FundArgs(request[r], locals[r])
              bytes == Tamper(serialize(Funded(args.tx, inputs, change)), t)
              called == [locals[r] EXCEPT !.funding_call = Some(args)]
          IN Return(r, "fund_raw_transaction", ok, AfterFund(request[r].entry_point),
                    IF ok THEN [called EXCEPT !.unsigned_transaction = Some(bytes)]
                          ELSE called,
                    IF request[r].entry_point = "Mint" THEN NoResult ELSE Ok(bytes),
                    Err("FundingFailed", ""))
  /\ UNCHANGED <<request, height, mints, has_rune_index, sent>>

\* fund_raw_transaction(bitcoin_client, self.fee_rate, &unfunded_transaction)?:
\* the node picks inputs among the wallet's unlocked outputs; it does not
\* reserve them.
Fund(r, tampers) ==
  /\ pc[r] = "fund"
  /\ \E ok \in BOOLEAN, inputs \in SUBSET (Outputs \ locked),
        change \in BOOLEAN, t \in tampers :
       /\ ok => inputs # {}
       /\ ~ok => inputs = {} /\ ~change /\ t = "none"
       /\ LET args == FundArgs(request[r], locals[r])
              bytes == Tamper(serialize(Funded(args.tx, inputs, change)), t)
              called == [locals[r] EXCEPT !.funding_call = Some(args)]
          IN Return(r, "fund_raw_transaction", ok, AfterFund(request[r].entry_point),
                    IF ok THEN [called EXCEPT !.unsigned_transaction = Some(bytes)]
                          ELSE called,
                    IF request[r].entry_point = "Mint" THEN NoResult ELSE Ok(bytes),
                    Err("FundingFailed", ""))
  /\ UNCHANGED <<request, height, mints, has_rune_index, locked, sent>>

\* bitcoin_client.sign_raw_transaction_with_wallet(&unsigned_transaction, ..)?.hex
\* The node cannot sign bytes it cannot parse.
Sign(r, tampers) ==
  /\ pc[r] = "sign"
  /\ LET unsigned == Unwrap(locals[r].unsigned_transaction)
     IN \E ok \in BOOLEAN, t \in tampers :
          /\ ok => unsigned.wellformed
          /\ ~ok => t = "none"
          /\ Advance(r, "sign_raw_transaction_with_wallet", ok, "deserialize",
                     IF ok THEN [locals[r] EXCEPT !.signed_transaction =
                                   Some(Tamper(serialize(Signed(unsigned.tx)), t))]
                           ELSE locals[r],
                     Err("SigningFailed", ""))
  /\ UNCHANGED <<request, height, mints, has_rune_index, locked, sent>>

\* let signed_transaction = consensus::encode::deserialize(&signed_transaction)?;
Deserialize(r) ==
  /\ pc[r] = "deserialize"
  /\ LET tx == deserialize(Unwrap(locals[r].signed_transaction))
     IN Advance(r, "deserialize", IsSome(tx), "decipher",
                [locals[r] EXCEPT !.deserialized = tx],
                Err("DeserializeFailed", ""))
  /\ UNCHANGED <<request, height, mints, has_rune_index, locked, sent>>

\* Faulty variant of ConsistencyOk: only the minted id is compared.
ConsistencyOkMintOnly(tx, runestone) ==
  /\ IsSome(decipher(tx))
  /\ Unwrap(decipher(tx)).runestone.mint = runestone.mint

\* Runestone::decipher(&signed_transaction) == Some(Artifact::Runestone(runestone))
ConsistencyOk(tx, runestone) ==
  decipher(tx) = Some([artifact |-> "Runestone", runestone |-> runestone])

\* assert_eq!(...): a mismatch panics.
Check(r) ==
  /\ pc[r] = "decipher"
  /\ LET ok == ConsistencyOk(Unwrap(locals[r].deserialized),
                             Unwrap(locals[r].runestone))
     IN /\ trace' = [trace EXCEPT ![r] = Append(@, [op |-> "decipher", ok |-> ok])]
        /\ IF ok
             THEN /\ pc' = [pc EXCEPT ![r] = "send"]
                  /\ result' = result
             ELSE /\ pc' = [pc EXCEPT ![r] = "panicked"]
                  /\ result' = [result EXCEPT ![r] = Panic("EncodingMismatch")]
  /\ UNCHANGED <<request, locals, height, mints, has_rune_index, locked, sent>>

\* Faulty variant of Output: the pile is derived again from the index and
\* the chain tip as they are after the broadcast.
OutputRederived(req, loc, id) ==
  LET now == Unwrap(get_rune(req.rune.rune, mints)).entry
  IN [rune |-> req.rune,
      pile |-> [amount |-> mintable(now, height).amount,
                divisibility |-> now.divisibility,
                symbol |-> now.symbol],
      mint |-> id]

\* Output { rune: self.rune, pile: Pile { amount, divisibility, symbol }, mint }
Output(req, loc, id) ==
  [rune |-> req.rune,
   pile |-> [amount |-> Unwrap(loc.amount),
             divisibility |-> Unwrap(loc.rune).entry.divisibility,
             symbol |-> Unwrap(loc.rune).entry.symbol],
   mint |-> id]

\* let transaction = bitcoin_client.send_raw_transaction(&signed_transaction)?;
\* Ok(Some(Box::new(Output { ... })))
Send(r) ==
  /\ pc[r] = "send"
  /\ LET tx == Unwrap(locals[r].deserialized)
     IN \E ok \in BOOLEAN :
          /\ sent' = IF ok THEN sent \cup {[by |-> r, tx |-> tx]} ELSE sent
          /\ Return(r, "send_raw_transaction", ok, "reported", locals[r],
                    Ok(Output(request[r], locals[r], txid(tx))),
                    Err("BroadcastFailed", ""))
  /\ UNCHANGED <<request, height, mints, has_rune_index, locked>>

\* A block is mined: the tip moves on and the rune may have been minted
\* by someone, up to its cap.
ChainAdvance ==
  /\ height < MaxHeight
  /\ height' = height + 1
  /\ \E m \in {mints, mints + 1} : m <= EtchedTerms.cap /\ mints' = m
  /\ UNCHANGED <<pc, request, locals, trace, result, has_rune_index, locked, sent>>

-----------------------------------------------------------------------------
(* Specifications *)

MintRequests ==
  [entry_point : EntryPoints, fee_rate : FeeRates, rune : SpacedRunes,
   postage : {None} \cup {Some(p) : p \in GivenPostages},
   destination : {None} \cup {Some(a) : a \in GivenAddresses}]

\* The request of the end-to-end scenario: postage and destination absent.
PlainRequests ==
  {q \in MintRequests : q.rune = [rune |-> EtchedRune, spacers |-> 0]
                        /\ q.postage = None /\ q.destination = None}

InitCommon ==
  /\ locals = [r \in Requests |-> InitLocals]
  /\ trace = [r \in Requests |-> <<>>]
  /\ result = [r \in Requests |-> NoResult]
  /\ height \in 0..MaxHeight
  /\ mints \in 0..EtchedTerms.cap
  /\ has_rune_index \in BOOLEAN
  /\ locked = {}
  /\ sent = {}

\* One request, any parameters; the other slot stays unused.
Init ==
  /\ request \in {q \in [Requests -> MintRequests] : q["r2"] \in PlainRequests
                                                     /\ q["r2"].entry_point = "Mint"}
  /\ pc = [r \in Requests |->
             IF r = "r1" THEN FirstStep(request[r].entry_point) ELSE "idle"]
  /\ InitCommon

\* Two requests in flight against the same wallet.
InitPair ==
  /\ request \in [Requests -> PlainRequests]
  /\ pc = [r \in Requests |-> FirstStep(request[r].entry_point)]
  /\ InitCommon

Step(r, tampers) ==
  \/ Construct(r)
  \/ HasRuneIndex(r)
  \/ GetBlockCount(r)
  \/ GetRune(r)
  \/ Mintable(r)
  \/ Destination(r)
  \/ Dust(r)
  \/ Encipher(r)
  \/ Build(r)
  \/ Lock(r)
  \/ Fund(r, tampers)
  \/ Sign(r, tampers)
  \/ Deserialize(r)
  \/ Check(r)
  \/ Send(r)

\* The node may answer with any transaction.
Next == ChainAdvance \/ \E r \in Requests : Step(r, Tampers)

\* The node answers honestly or fails.
NextHonest == ChainAdvance \/ \E r \in Requests : Step(r, {"none"})

Spec == Init /\ [][Next]_vars

SpecPair == InitPair /\ [][NextHonest]_vars

\* The same request run through Mint::run and then through
\* RunesMint::run_in_place, on a chain that stands still meanwhile.
InitTwin ==
  /\ request \in {q \in [Requests -> MintRequests] :
                    /\ q["r1"].entry_point = "Mint"
                    /\ q["r2"] = [q["r1"] EXCEPT !.entry_point = "RunesMint"]}
  /\ pc = [r \in Requests |-> FirstStep(request[r].entry_point)]
  /\ InitCommon

\* The second run starts when the first has ended.
Turn(r) == r = "r1" \/ pc["r1"] \in Terminal

\* A step of run() against an honest node, by the run whose turn it is.
TwinStep(r) ==
  \/ Turn(r) /\ Construct(r)
  \/ Turn(r) /\ HasRuneIndex(r)
  \/ Turn(r) /\ GetBlockCount(r)
  \/ Turn(r) /\ GetRune(r)
  \/ Turn(r) /\ Mintable(r)
  \/ Turn(r) /\ Destination(r)
  \/ Turn(r) /\ Dust(r)
  \/ Turn(r) /\ Encipher(r)
  \/ Turn(r) /\ Build(r)
  \/ Turn(r) /\ Lock(r)
  \/ Turn(r) /\ Fund(r, {"none"})
  \/ Turn(r) /\ Sign(r, {"none"})
  \/ Turn(r) /\ Deserialize(r)
  \/ Turn(r) /\ Check(r)
  \/ Turn(r) /\ Send(r)

NextTwin == \E r \in Requests : TwinStep(r)

SpecTwin == InitTwin /\ [][NextTwin]_vars

-----------------------------------------------------------------------------
(* Reading a request's trace *)

Called(r, op) == \E i \in DOMAIN trace[r] : trace[r][i].op = op
Succeeded(r, op) == \E i \in DOMAIN trace[r] : trace[r][i].op = op /\ trace[r][i].ok
Refused(r, op) == \E i \in DOMAIN trace[r] : trace[r][i].op = op /\ ~trace[r][i].ok
Ops(r) == [i \in DOMAIN trace[r] |-> trace[r][i].op]
AllSucceeded(r) == \A i \in DOMAIN trace[r] : trace[r][i].ok
SentBy(r) == {s \in sent : s.by = r}
Ended(r) == pc[r] \in Terminal \ {"idle"}

-----------------------------------------------------------------------------
(* Claims *)

\* C1: the broadcaster is called only after funding and then signing
\* succeeded in the same request, in that order, with every earlier step
\* succeeded; a request one of whose earlier steps failed has ended in
\* failure, never called the broadcaster and sent nothing.
C1_BroadcastOnlyAfterFundAndSign ==
  \A r \in Requests :
    /\ Called(r, "send_raw_transaction") =>
         \E k \in DOMAIN trace[r] :
           /\ trace[r][k].op = "send_raw_transaction"
           /\ \A n \in 1..(k - 1) : trace[r][n].ok
           /\ \E j \in 1..(k - 1) :
                /\ trace[r][j].op = "sign_raw_transaction_with_wallet"
                /\ trace[r][j].ok
                /\ \E i \in 1..(j - 1) :
                     /\ trace[r][i].op = "fund_raw_transaction"
                     /\ trace[r][i].ok
    /\ SentBy(r) # {} => Succeeded(r, "send_raw_transaction")
    /\ (\E i \in DOMAIN trace[r] :
          ~trace[r][i].ok /\ trace[r][i].op # "send_raw_transaction")
       => /\ pc[r] \in {"failed", "panicked"}
          /\ result[r].tag \in {"err", "panic"}
          /\ ~Called(r, "send_raw_transaction")
          /\ SentBy(r) = {}

\* C1's case: a request broadcast its transaction.
C1_Witness ==
  \E r \in Requests : pc[r] = "reported" /\ SentBy(r) # {}

\* The artifact the consistency check expects of request r.
Expected(r) ==
  Some([artifact |-> "Runestone",
        runestone |-> MintRunestone(Unwrap(locals[r].rune).id)])

\* C2: a request whose signed transaction does not decipher to exactly the
\* runestone { mint: Some(id) } it built panics with EncodingMismatch at the
\* consistency check and never calls the broadcaster; every transaction
\* sent deciphers to its request's runestone.
C2_MismatchIsFatal ==
  \A r \in Requests :
    /\ (Called(r, "decipher")
        /\ decipher(Unwrap(locals[r].deserialized)) # Expected(r))
       => /\ pc[r] = "panicked"
          /\ result[r] = Panic("EncodingMismatch")
          /\ ~Called(r, "send_raw_transaction")
          /\ SentBy(r) = {}
    /\ \A s \in SentBy(r) : decipher(s.tx) = Expected(r)

\* C2's case: the signed transaction's instruction output is no runestone,
\* and the request panicked.
C2_Witness ==
  \E r \in Requests :
    /\ pc[r] = "panicked"
    /\ decipher(Unwrap(locals[r].deserialized)) = None

\* C3: two requests against the same wallet never interleave: while one
\* has taken the output lock and not yet called funding, the other makes
\* no lock-outputs or funding call; and two funded requests never hold
\* overlapping inputs.
C3_CriticalSection ==
  /\ \A r \in Requests : \A s \in Requests \ {r} :
       ~(pc[r] = "fund" /\ pc[s] = "fund")
  /\ \A r \in Requests : \A s \in Requests \ {r} :
       (IsSome(locals[r].unsigned_transaction)
        /\ IsSome(locals[s].unsigned_transaction))
       => Unwrap(locals[r].unsigned_transaction).tx.input
            \cap Unwrap(locals[s].unsigned_transaction).tx.input = {}

\* C4: when mintable, at the height and entry the request read, gives an
\* error, the request fails with that error and the rune's name, and makes
\* no lock, funding, signing or broadcast call.
C4_IneligibleStops ==
  \A r \in Requests :
    Called(r, "mintable") =>
      LET m == mintable(Unwrap(locals[r].rune).entry, Unwrap(locals[r].block_height))
      IN ~m.ok =>
           /\ m.err \in {"NotStarted", "Ended", "CapReached"}
           /\ pc[r] = "failed"
           /\ result[r] = Err(m.err, request[r].rune.rune)
           /\ trace[r][Len(trace[r])] = [op |-> "mintable", ok |-> FALSE]
           /\ ~Called(r, "lock_non_cardinal_outputs")
           /\ ~Called(r, "fund_raw_transaction")
           /\ ~Called(r, "sign_raw_transaction_with_wallet")
           /\ ~Called(r, "send_raw_transaction")
           /\ SentBy(r) = {}

\* C4's case: the mint window has ended.
C4_Witness ==
  \E r \in Requests : result[r] = Err("Ended", EtchedRune)

PlainRequest(r) == request[r].postage = None /\ request[r].destination = None

\* The calls of run() up to funding, for a request without destination.
OpsToFunding ==
  << "has_rune_index", "get_block_count", "get_rune", "mintable",
     "get_change_address", "dust_value", "encipher", "build",
     "lock_non_cardinal_outputs", "fund_raw_transaction" >>

OpsAfterFunding ==
  << "sign_raw_transaction_with_wallet", "deserialize", "decipher",
     "send_raw_transaction" >>

\* C5 as stated: a request without postage and destination, every step of
\* which succeeded, ends Reported through Funded, Signed and Broadcast,
\* whichever the entry point, with the evaluator's amount in the pile, the
\* change address as destination and TARGET_POSTAGE as postage.
C5_EveryEntryPointReports ==
  \A r \in Requests :
    (PlainRequest(r) /\ Ended(r) /\ AllSucceeded(r)) =>
      /\ pc[r] = "reported"
      /\ Succeeded(r, "fund_raw_transaction")
      /\ Succeeded(r, "sign_raw_transaction_with_wallet")
      /\ Succeeded(r, "send_raw_transaction")
      /\ Unwrap(result[r].value).pile.amount = Unwrap(locals[r].amount)
      /\ Unwrap(locals[r].unfunded_transaction).output[2] =
           [script |-> script_pubkey(ChangeAddress), value |-> TARGET_POSTAGE]

\* C5, amended: such a request through Mint::run ends Reported after
\* funding, signing and broadcast, with the evaluator's amount in the pile;
\* through RunesMint::run_in_place it ends at Funded, returning the funded
\* unsigned transaction without signing, broadcasting or reporting a pile.
\* Either way the skeleton pays TARGET_POSTAGE to the change address.
C5_MintReportsRunesMintReturnsFunded ==
  \A r \in Requests :
    (PlainRequest(r) /\ Ended(r) /\ AllSucceeded(r)) =>
      /\ Unwrap(locals[r].unfunded_transaction).output[2] =
           [script |-> script_pubkey(ChangeAddress), value |-> TARGET_POSTAGE]
      /\ IF request[r].entry_point = "Mint"
           THEN /\ pc[r] = "reported"
                /\ Ops(r) = OpsToFunding \o OpsAfterFunding
                /\ result[r].tag = "ok"
                /\ Unwrap(result[r].value).rune = request[r].rune
                /\ Unwrap(result[r].value).pile.amount =
                     mintable(Unwrap(locals[r].rune).entry,
                              Unwrap(locals[r].block_height)).amount
                /\ Unwrap(result[r].value).pile.amount = EtchedTerms.amount
                /\ Unwrap(result[r].value).mint \in {txid(s.tx) : s \in SentBy(r)}
           ELSE /\ pc[r] = "returned"
                /\ Ops(r) = <<"construct">> \o OpsToFunding
                /\ result[r] = Ok(Unwrap(locals[r].unsigned_transaction))
                /\ SentBy(r) = {}

\* C5's case: the plain request, through Mint::run, was reported.
C5_Witness ==
  \E r \in Requests :
    /\ PlainRequest(r) /\ AllSucceeded(r)
    /\ request[r].entry_point = "Mint"
    /\ pc[r] = "reported"

\* C6: whatever the destination script, postage at or below its dust value
\* is refused with BelowDustLimit before any lock or funding call, and
\* postage of the dust value plus one (or more) passes the dust check.
C6_DustEnforced ==
  \A r \in Requests :
    Called(r, "dust_value") =>
      LET dust == dust_value(script_pubkey(Unwrap(locals[r].destination)))
          postage == UnwrapOr(request[r].postage, TARGET_POSTAGE)
      IN /\ postage <= dust =>
              /\ pc[r] = "failed"
              /\ result[r] = Err("BelowDustLimit", "")
              /\ trace[r][Len(trace[r])] = [op |-> "dust_value", ok |-> FALSE]
              /\ ~Called(r, "lock_non_cardinal_outputs")
              /\ ~Called(r, "fund_raw_transaction")
              /\ locals[r].locked_here = {}
         /\ postage >= dust + 1 => Succeeded(r, "dust_value")

\* C6's case: postage exactly at the dust value, refused.
C6_Witness ==
  \E r \in Requests :
    /\ result[r] = Err("BelowDustLimit", "")
    /\ request[r].postage =
         Some(dust_value(script_pubkey(Unwrap(locals[r].destination))))

\* C7: the skeleton built, the one handed to funding, has no inputs and
\* exactly two outputs: first the enciphered instruction with value 0, then the
\* destination script (given or the change address) with the postage
\* (given or TARGET_POSTAGE).
C7_SkeletonShape ==
  \A r \in Requests :
    /\ Called(r, "fund_raw_transaction") => IsSome(locals[r].unfunded_transaction)
    /\ IsSome(locals[r].unfunded_transaction) =>
      LET tx == Unwrap(locals[r].unfunded_transaction)
          destination == UnwrapOr(request[r].destination, ChangeAddress)
      IN /\ tx.input = {}
         /\ Len(tx.output) = 2
         /\ tx.output[1].value = 0
         /\ IsRunestoneScript(tx.output[1].script)
         /\ tx.output[1].script.payload = Message(MintRunestone(EtchedId))
         /\ tx.output[1].script = Unwrap(locals[r].script_pubkey)
         /\ tx.output[2] =
              [script |-> script_pubkey(destination),
               value |-> UnwrapOr(request[r].postage, TARGET_POSTAGE)]

\* C7's case: funding was called for a request with a given destination
\* and a given postage.
C7_Witness ==
  \E r \in Requests :
    /\ Called(r, "fund_raw_transaction")
    /\ IsSome(request[r].postage)
    /\ IsSome(request[r].destination)

\* C8: an instruction script longer than 82 bytes is refused with
\* PayloadTooLarge, and no skeleton is built, locked for or funded; a script
\* of 82 bytes or fewer passes; the skeleton carries the script as
\* enciphered.
C8_SizeLimit ==
  \A r \in Requests :
    Called(r, "encipher") =>
      LET script == Unwrap(locals[r].script_pubkey)
      IN /\ script.len > 82 =>
              /\ pc[r] = "failed"
              /\ result[r] = Err("PayloadTooLarge", "")
              /\ locals[r].unfunded_transaction = None
              /\ ~Called(r, "build")
              /\ ~Called(r, "lock_non_cardinal_outputs")
              /\ ~Called(r, "fund_raw_transaction")
         /\ script.len <= 82 => Succeeded(r, "encipher")
         /\ IsSome(locals[r].unfunded_transaction) =>
              Unwrap(locals[r].unfunded_transaction).output[1].script = script

\* C8's case: a script of 83 bytes, refused.
C8_Witness ==
  \E r \in Requests :
    /\ result[r] = Err("PayloadTooLarge", "")
    /\ Unwrap(locals[r].script_pubkey).len = 83

\* The request failed in the lock call or in the funding call.
AbortedAroundLock(r) ==
  /\ pc[r] = "failed"
  /\ trace[r][Len(trace[r])].op \in
       {"lock_non_cardinal_outputs", "fund_raw_transaction"}

\* C9 as stated: once every request has ended, a request that aborted in
\* the lock call or in the funding call holds no output locked any more.
C9_LockReleased ==
  (\A q \in Requests : pc[q] \in Terminal) =>
    \A r \in Requests :
      AbortedAroundLock(r) => locals[r].locked_here \cap locked = {}

\* C9, amended: the outputs a request locked stay locked, also after it
\* aborted in the lock call or in the funding call: no step releases them.
C9_LockKept ==
  \A r \in Requests : locals[r].locked_here \subseteq locked

\* C9's case: a request aborted by a failed funding call, having locked
\* outputs.
C9_Witness ==
  \E r \in Requests :
    /\ AbortedAroundLock(r)
    /\ Refused(r, "fund_raw_transaction")
    /\ locals[r].locked_here # {}

\* C10: funding is called only after lock_non_cardinal_outputs succeeded
\* earlier in the same request; after a failed lock call funding is not
\* called; when funding is about to run every non-cardinal output is
\* locked, and the inputs funding picked hold none of them.
C10_LockBeforeFund ==
  \A r \in Requests :
    /\ Called(r, "fund_raw_transaction") =>
         \E j \in DOMAIN trace[r] :
           /\ trace[r][j].op = "fund_raw_transaction"
           /\ \E i \in 1..(j - 1) :
                /\ trace[r][i].op = "lock_non_cardinal_outputs"
                /\ trace[r][i].ok
    /\ Refused(r, "lock_non_cardinal_outputs") => ~Called(r, "fund_raw_transaction")
    /\ pc[r] = "fund" => NonCardinals \subseteq locked
    /\ IsSome(locals[r].unsigned_transaction) =>
         Unwrap(locals[r].unsigned_transaction).tx.input \cap NonCardinals = {}

\* C10's case: funding ran after this request locked the non-cardinal
\* outputs.
C10_Witness ==
  \E r \in Requests :
    /\ Succeeded(r, "fund_raw_transaction")
    /\ locals[r].locked_here = NonCardinals


\* C11: when the wallet's index has no rune index, the request fails with
\* IndexNotEnabled at the first step of run(): it reads no chain height,
\* looks up no rune, evaluates no eligibility and makes no lock, funding,
\* signing or broadcast call.
C11_IndexCheckedFirst ==
  \A r \in Requests :
    /\ Called(r, "has_rune_index") =>
         /\ Ops(r)[IF request[r].entry_point = "Mint" THEN 1 ELSE 2] = "has_rune_index"
         /\ Succeeded(r, "has_rune_index") = has_rune_index
    /\ Refused(r, "has_rune_index") =>
         /\ pc[r] = "failed"
         /\ result[r] = Err("IndexNotEnabled", "")
         /\ trace[r][Len(trace[r])] = [op |-> "has_rune_index", ok |-> FALSE]
         /\ \A op \in {"get_block_count", "get_rune", "mintable",
                       "lock_non_cardinal_outputs", "fund_raw_transaction",
                       "sign_raw_transaction_with_wallet", "send_raw_transaction"} :
              ~Called(r, op)
         /\ locals[r] = InitLocals
         /\ SentBy(r) = {}

\* C11's case: the index has no rune index and the request failed on it.
C11_Witness ==
  \E r \in Requests : ~has_rune_index /\ result[r] = Err("IndexNotEnabled", "")


\* How often request r made a call.
Count(r, op) == Cardinality({i \in DOMAIN trace[r] : trace[r][i].op = op})

\* C12: with the chain tip and the mint count moving on during a request,
\* the result reported after the broadcast carries the amount of the one
\* eligibility evaluation made before funding, at the height and entry the
\* request read, with that entry's divisibility and symbol, the request's
\* rune and the broadcast transaction's id.
C12_PileFromTheOneEvaluation ==
  \A r \in Requests :
    pc[r] = "reported" =>
      LET out == Unwrap(result[r].value)
          entry == Unwrap(locals[r].rune).entry
          evaluated == mintable(entry, Unwrap(locals[r].block_height))
      IN /\ Count(r, "get_block_count") = 1
         /\ Count(r, "get_rune") = 1
         /\ Count(r, "mintable") = 1
         /\ \E i, j \in DOMAIN trace[r] :
              /\ i < j
              /\ trace[r][i].op = "mintable"
              /\ trace[r][j].op = "fund_raw_transaction"
         /\ evaluated.ok
         /\ out.pile = [amount |-> evaluated.amount,
                        divisibility |-> entry.divisibility,
                        symbol |-> entry.symbol]
         /\ out.rune = request[r].rune
         /\ out.mint \in {txid(s.tx) : s \in SentBy(r)}

\* C12's case: a result was reported after the tip and the mint count had
\* moved on from what the request read.
C12_Witness ==
  \E r \in Requests :
    /\ pc[r] = "reported"
    /\ height > Unwrap(locals[r].block_height)
    /\ mints > Unwrap(locals[r].rune).entry.mints
    /\ ~mintable(Unwrap(get_rune(request[r].rune.rune, mints)).entry, height).ok


\* C13: within one request, eligibility is evaluated with a chain height
\* and a token entry read at the same chain tip, however the chain advances
\* meanwhile: the index answers the lookup, whose entry goes into the
\* evaluation, at the tip whose height the request read.
C13_HeightAndEntryOfOneTip ==
  [][\A r \in Requests :
       (pc[r] = "get_rune" /\ pc'[r] = "mintable") =>
         /\ Count(r, "get_block_count") = 1
         /\ height = Unwrap(locals[r].block_height)]_vars


\* Where request r made a call (0 when it did not).
Pos(r, op) ==
  IF Called(r, op) THEN CHOOSE i \in DOMAIN trace[r] : trace[r][i].op = op ELSE 0

\* op1 was made, and before op2, whenever op2 was made.
Before(r, op1, op2) ==
  \A j \in DOMAIN trace[r] :
    trace[r][j].op = op2 => \E i \in 1..(j - 1) : trace[r][i].op = op1

\* C14 as stated: the height is read before eligibility is evaluated,
\* eligibility before the instruction is encoded, the instruction is encoded
\* and size-checked before the dust check and the construction of the
\* skeleton, and the skeleton is built before funding is called.
C14_EncodedBeforeDustCheck ==
  \A r \in Requests :
    /\ Before(r, "get_block_count", "mintable")
    /\ Before(r, "mintable", "encipher")
    /\ Before(r, "encipher", "dust_value")
    /\ Before(r, "encipher", "build")
    /\ Before(r, "build", "fund_raw_transaction")

\* The steps of run() in the order of the source, for request r.
StepOrder(r) ==
  (IF request[r].entry_point = "RunesMint" THEN << "construct" >> ELSE << >>)
  \o << "has_rune_index", "get_block_count", "get_rune", "mintable",
        IF IsSome(request[r].destination) THEN "require_network"
                                          ELSE "get_change_address",
        "dust_value", "encipher", "build", "lock_non_cardinal_outputs",
        "fund_raw_transaction" >>
  \o (IF request[r].entry_point = "Mint" THEN OpsAfterFunding ELSE << >>)

\* C14, amended: the steps of a request are an initial part of the source's
\* order, in which the dust check comes before the instruction is encoded
\* and size-checked: height, eligibility, destination, dust check, encoding
\* and size check, skeleton, lock, funding.
C14_DustCheckBeforeEncoded ==
  \A r \in Requests :
    /\ Len(trace[r]) <= Len(StepOrder(r))
    /\ Ops(r) = SubSeq(StepOrder(r), 1, Len(trace[r]))
    /\ Before(r, "get_block_count", "mintable")
    /\ Before(r, "mintable", "dust_value")
    /\ Before(r, "dust_value", "encipher")
    /\ Before(r, "encipher", "build")
    /\ Before(r, "build", "fund_raw_transaction")

\* C14's case: a request passed the dust check and was then refused for the
\* size of its encoded instruction.
C14_Witness ==
  \E r \in Requests :
    /\ Succeeded(r, "dust_value")
    /\ result[r] = Err("PayloadTooLarge", "")
    /\ Pos(r, "dust_value") < Pos(r, "encipher")


\* The calls a request makes on its collaborators.
CollaboratorOps ==
  {"has_rune_index", "get_block_count", "get_rune", "get_change_address",
   "lock_non_cardinal_outputs", "fund_raw_transaction",
   "sign_raw_transaction_with_wallet", "send_raw_transaction"}

\* C15: within one request every step, and so every collaborator operation,
\* is made at most once; a step that failed is the request's last, and the
\* request is then Failed with an error; a request that ended (Failed,
\* Reported, or returned from RunesMint::run) takes no further step.
C15_NoRetryAndTerminal ==
  /\ [](\A r \in Requests :
          /\ \A op \in CollaboratorOps : Count(r, op) <= 1
          /\ \A i, j \in DOMAIN trace[r] : trace[r][i].op = trace[r][j].op => i = j
          /\ \A i \in DOMAIN trace[r] :
               ~trace[r][i].ok =>
                 /\ i = Len(trace[r])
                 /\ pc[r] \in {"failed", "panicked"}
                 /\ result[r].tag \in {"err", "panic"}
          /\ pc[r] \in {"failed", "panicked"} => ~trace[r][Len(trace[r])].ok
          /\ pc[r] = "reported" =>
               trace[r][Len(trace[r])] = [op |-> "send_raw_transaction", ok |-> TRUE])
  /\ [][\A r \in Requests :
          Ended(r) => /\ pc'[r] = pc[r]
                      /\ trace'[r] = trace[r]
                      /\ result'[r] = result[r]
                      /\ locals'[r] = locals[r]
                      /\ SentBy(r)' = SentBy(r)]_vars

\* C15's case: funding failed after the lock was taken, and the request is
\* Failed.
C15_Witness ==
  \E r \in Requests :
    /\ pc[r] = "failed"
    /\ Succeeded(r, "lock_non_cardinal_outputs")
    /\ Refused(r, "fund_raw_transaction")


\* The calls of run() itself: run_in_place's construction of the wallet
\* comes before RunesMint::run is entered.
RunTrace(r) ==
  IF trace[r] # <<>> /\ trace[r][1].op = "construct" THEN Tail(trace[r]) ELSE trace[r]

\* The part of run() up to and including the funding call.
ToFunding(t) ==
  SubSeq(t, 1, IF Len(t) < Len(OpsToFunding) THEN Len(t) ELSE Len(OpsToFunding))

\* The steps whose outcome is the answer of a collaborator.
AnsweredOps ==
  {"has_rune_index", "get_block_count", "get_rune", "get_change_address",
   "lock_non_cardinal_outputs", "fund_raw_transaction"}

\* As far as both runs have come, the collaborators answered them alike.
SameAnswers(a, b) ==
  /\ \A i \in DOMAIN ToFunding(RunTrace(a)) \cap DOMAIN ToFunding(RunTrace(b)) :
       RunTrace(a)[i].op \in AnsweredOps => RunTrace(a)[i].ok = RunTrace(b)[i].ok
  /\ IsSome(locals[a].block_height) /\ IsSome(locals[b].block_height)
       => locals[a].block_height = locals[b].block_height
  /\ Called(a, "get_rune") /\ Called(b, "get_rune")
       => /\ locals[a].rune = locals[b].rune
          /\ Refused(a, "get_rune") /\ Refused(b, "get_rune")
               => (result[a].error = "IndexQueryFailed") = (result[b].error = "IndexQueryFailed")
  /\ IsSome(locals[a].script_pubkey) /\ IsSome(locals[b].script_pubkey)
       => locals[a].script_pubkey = locals[b].script_pubkey

\* What run() has bound and handed on up to funding.
BoundToFunding(r) ==
  [f \in {"block_height", "rune", "postage", "amount", "destination", "runestone",
          "script_pubkey", "unfunded_transaction", "funding_call"} |-> locals[r][f]]

Validated(r) ==
  /\ Succeeded(r, "has_rune_index")
  /\ Succeeded(r, "get_rune")
  /\ Succeeded(r, "mintable")
  /\ IsSome(request[r].destination) => Succeeded(r, "require_network")
  /\ Succeeded(r, "dust_value")
  /\ Succeeded(r, "encipher")

\* C17: the output lock is called only by a request that passed every
\* validation, and the wallet's set of locked outputs changes in no other
\* step than that call; so a request that failed a validation has locked
\* nothing and leaves the set as it was.
C17_ValidatedBeforeLock ==
  /\ [](\A r \in Requests :
          /\ Called(r, "lock_non_cardinal_outputs") => Validated(r)
          /\ ~Called(r, "lock_non_cardinal_outputs") => locals[r].locked_here = {}
          /\ (pc[r] = "failed" /\ ~Validated(r)) =>
               /\ ~Called(r, "lock_non_cardinal_outputs")
               /\ ~Called(r, "fund_raw_transaction"))
  /\ [](locked = UNION {locals[r].locked_here : r \in Requests})
  /\ [][locked' # locked =>
          \E r \in Requests :
            /\ pc[r] = "lock"
            /\ Validated(r)
            /\ Called(r, "lock_non_cardinal_outputs")'
            /\ locked' = locked \cup locals'[r].locked_here]_vars

\* C17's case: a request was refused by a validation, here the dust limit,
\* and the wallet's locked outputs are as before.
C17_Witness ==
  \E r \in Requests :
    /\ result[r] = Err("BelowDustLimit", "")
    /\ locals[r].locked_here = {}
    /\ locked = {}


\* C18: a destination given by the caller is bound, and the postage sent to
\* it, only if it is valid for the wallet chain's network; one for another
\* network fails the request before the dust check, the encoding, the
\* output lock and the funding; the wallet's change address is requested
\* only when no destination was given, and is then the destination.
C18_DestinationOfTheWalletsNetwork ==
  \A r \in Requests :
    /\ IsSome(request[r].destination) =>
         LET d == Unwrap(request[r].destination)
         IN /\ ~Called(r, "get_change_address")
            /\ Called(r, "require_network") =>
                 Succeeded(r, "require_network") = require_network(d, WalletNetwork)
            /\ Refused(r, "require_network") =>
                 /\ d.network # WalletNetwork
                 /\ pc[r] = "failed"
                 /\ result[r] = Err("WrongNetwork", "")
                 /\ trace[r][Len(trace[r])].op = "require_network"
                 /\ \A op \in {"dust_value", "encipher", "build",
                               "lock_non_cardinal_outputs", "fund_raw_transaction",
                               "send_raw_transaction"} : ~Called(r, op)
                 /\ locals[r].destination = None
                 /\ locals[r].locked_here = {}
            /\ IsSome(locals[r].destination) =>
                 /\ locals[r].destination = Some(d)
                 /\ d.network = WalletNetwork
    /\ ~IsSome(request[r].destination) =>
         /\ ~Called(r, "require_network")
         /\ IsSome(locals[r].destination) =>
              /\ Succeeded(r, "get_change_address")
              /\ locals[r].destination = Some(ChangeAddress)
    /\ IsSome(locals[r].unfunded_transaction) =>
         Unwrap(locals[r].unfunded_transaction) =
           Skeleton(Unwrap(locals[r].script_pubkey),
                    script_pubkey(Unwrap(locals[r].destination)),
                    Unwrap(locals[r].postage))
    /\ Called(r, "dust_value") => IsSome(locals[r].destination)

\* C18's case: a destination for another network was given and the request
\* was refused for it.
C18_Witness ==
  \E r \in Requests :
    /\ IsSome(request[r].destination)
    /\ Unwrap(request[r].destination).network # WalletNetwork
    /\ result[r] = Err("WrongNetwork", "")

====
